---- MODULE Spec2Model ----
(***************************************************************************)
(* Field-configuration engine of ngfg (app/services/field.py).             *)
(*                                                                         *)
(* The relational store is five tables of rows.  Every engine operation    *)
(* is an operator from a store and its arguments to a call result          *)
(*   [db, log, err, data]                                                  *)
(* db   the store the call leaves behind,                                  *)
(* log  the store writes the call attempted, in program order,             *)
(* err  "ok" or the name of the exception that left the call,              *)
(* data the mapping the call returned (None when it raised).               *)
(*                                                                         *)
(* Python's None is the empty tuple and a present value v is <<v>>, so     *)
(* that 0, False, "" and [] stay distinct from None.                       *)
(***************************************************************************)
EXTENDS Integers, Sequences, FiniteSets, TLC

\* The five tables of the store, the record of the latest engine call, and
\* the engine calls that are in flight when requests are served concurrently.
VARIABLES t_fields, t_ranges, t_field_ranges, t_choice_options, t_settings, last, calls

vars == <<t_fields, t_ranges, t_field_ranges, t_choice_options, t_settings, last, calls>>

\* ------------------------------------------------------------------ bounds
MaxFields == 1
MaxRanges == 2
MaxOptions == 2

\* ------------------------------------------------------------ input domains
None == <<>>
Some(v) == <<v>>

Names == {"a", "b"}
Owners == {1}
RangeMins == {None, Some(0)}
RangeMaxs == {None, Some(1)}
\* choice_options / added / removed arguments: absent, empty, or a list.
OptionArgs == {None, Some(<<>>), Some(<<"x">>), Some(<<"x", "y">>)}
DeltaArgs == OptionArgs \ {Some(<<>>)}
\* name argument of the update operations
NameArgs == {None, Some("b")}
Descriptors == {[data_url |-> "u", sheet |-> "s", from_row |-> "A1", to_row |-> "A5"],
                [data_url |-> "v", sheet |-> "t", from_row |-> "B2", to_row |-> "B9"]}

FieldTypes == {"Text", "Number", "TextArea", "Radio", "Checkbox", "Autocomplete"}

\* fault: a store collaborator reports failure (returns None) at its at-th
\* call within one engine call.  A failure report is an input of a call at
\* the places where the engine reads the collaborator's answer.
NoFault == [op |-> "none", at |-> 0]

\* ------------------------------------------------------------------ helpers
Max(S) == CHOOSE x \in S : \A y \in S : y <= x
Min(S) == CHOOSE x \in S : \A y \in S : x <= y
NextId(rows) == IF rows = {} THEN 1 ELSE 1 + Max({r.id : r \in rows})
Count(log, w) == Cardinality({i \in DOMAIN log : log[i] = w})

\* The context threaded through one engine call.
Ctx(db, fault) == [db |-> db, log |-> <<>>, fault |-> fault]
Logged(c, w) == [c EXCEPT !.log = Append(@, w)]
Fails(c, w) == c.fault.op = w /\ c.fault.at = Count(c.log, w) + 1
Val(c, v) == [c |-> c, val |-> v]
Raise(c, e) == [db |-> c.db, log |-> c.log, err |-> e, data |-> None]
Return(c, d) == [db |-> c.db, log |-> c.log, err |-> "ok", data |-> Some(d)]

Store == [fields |-> t_fields, ranges |-> t_ranges, field_ranges |-> t_field_ranges,
          choice_options |-> t_choice_options, settings |-> t_settings]

\* ------------------------------------------------- store collaborators (4.2)
\* Each returns the context after the call and the instance, or None.

\* RangeService.create(range_min, range_max): a fresh Range row.
RangeService_create(c, range_min, range_max) ==
    LET row == [id |-> NextId(c.db.ranges), min |-> range_min, max |-> range_max]
        c1 == Logged(c, "Range.create")
    IN Val([c1 EXCEPT !.db.ranges = @ \cup {row}], Some(row))

\* RangeService.get_by_id(range_id)
RangeService_get_by_id(db, range_id) ==
    LET found == {r \in db.ranges : r.id = range_id}
    IN IF found = {} THEN None ELSE Some(CHOOSE r \in found : TRUE)

\* FieldRangeService.get_by_field_id(field_id): the field's link row, the
\* oldest one if there were several.
FieldRangeService_get_by_field_id(db, field_id) ==
    LET found == {l \in db.field_ranges : l.field_id = field_id}
    IN IF found = {} THEN None
       ELSE Some(CHOOSE l \in found : l.range_id = Min({k.range_id : k \in found}))

\* FieldRangeService.create(field_id, range_id): a new link row.
FieldRangeService_create(c, field_id, range_id) ==
    LET row == [field_id |-> field_id, range_id |-> range_id]
        c1 == Logged(c, "FieldRange.create")
    IN Val([c1 EXCEPT !.db.field_ranges = @ \cup {row}], Some(row))

\* Variant: the update writes a second link row and keeps the old one.
FieldRangeService_update_adding(c, field_id, range_id) ==
    LET old == FieldRangeService_get_by_field_id(c.db, field_id)
        c1 == Logged(c, "FieldRange.update")
    IN IF old = None THEN Val(c1, None)
       ELSE LET row == [old[1] EXCEPT !.range_id = range_id]
            IN Val([c1 EXCEPT !.db.field_ranges = @ \cup {row}], Some(row))

\* FieldRangeService.update(field_id, range_id): re-points the field's link.
FieldRangeService_update(c, field_id, range_id) ==
    LET old == FieldRangeService_get_by_field_id(c.db, field_id)
        c1 == Logged(c, "FieldRange.update")
    IN IF old = None THEN Val(c1, None)
       ELSE LET row == [old[1] EXCEPT !.range_id = range_id]
            IN Val([c1 EXCEPT !.db.field_ranges = (@ \ {old[1]}) \cup {row}], Some(row))

\* FieldRangeService.delete(field_id): removes the field's link row.
FieldRangeService_delete(c, field_id) ==
    LET old == FieldRangeService_get_by_field_id(c.db, field_id)
        c1 == Logged(c, "FieldRange.delete")
    IN IF old = None \/ Fails(c, "FieldRange.delete") THEN Val(c1, None)
       ELSE Val([c1 EXCEPT !.db.field_ranges = @ \ {old[1]}], Some(TRUE))

\* The ChoiceOption table is kept in insertion order, which is the order
\* of its ids; the id of a row is its position.
Remove(seq, i) == SubSeq(seq, 1, i - 1) \o SubSeq(seq, i + 1, Len(seq))

\* ChoiceOptionService.create(field_id, option_text)
ChoiceOptionService_create(c, field_id, option_text) ==
    LET row == [field_id |-> field_id, option_text |-> option_text]
        c1 == Logged(c, "ChoiceOption.create")
    IN IF Fails(c, "ChoiceOption.create") THEN Val(c1, None)
       ELSE Val([c1 EXCEPT !.db.choice_options = Append(@, row)], Some(row))

\* ChoiceOptionService.get_by_field_and_text(field_id, option_text): the id
\* of the first matching row.
ChoiceOptionService_get_by_field_and_text(db, field_id, option_text) ==
    LET found == {i \in DOMAIN db.choice_options :
                     /\ db.choice_options[i].field_id = field_id
                     /\ db.choice_options[i].option_text = option_text}
    IN IF found = {} THEN None ELSE Some([id |-> Min(found)])

\* ChoiceOptionService.delete(option_id)
ChoiceOptionService_delete(c, option_id) ==
    LET c1 == Logged(c, "ChoiceOption.delete")
    IN IF option_id \notin DOMAIN c.db.choice_options \/ Fails(c, "ChoiceOption.delete")
       THEN Val(c1, None)
       ELSE Val([c1 EXCEPT !.db.choice_options = Remove(@, option_id)], Some(TRUE))

\* ChoiceOptionService.filter(field_id): the field's options, oldest first.
ChoiceOptionService_filter(db, field_id) ==
    SelectSeq(db.choice_options, LAMBDA o : o.field_id = field_id)

\* SettingAutocompleteService.create(data_url, sheet, from_row, to_row, field_id)
SettingAutocompleteService_create(c, data_url, sheet, from_row, to_row, field_id) ==
    LET row == [id |-> NextId(c.db.settings), field_id |-> field_id,
                data_url |-> data_url, sheet |-> sheet,
                from_row |-> from_row, to_row |-> to_row]
        c1 == Logged(c, "Setting.create")
    IN IF Fails(c, "Setting.create") THEN Val(c1, None)
       ELSE Val([c1 EXCEPT !.db.settings = @ \cup {row}], Some(row))

\* SettingAutocompleteService.get_by_field_id(field_id)
SettingAutocompleteService_get_by_field_id(db, field_id) ==
    LET found == {s \in db.settings : s.field_id = field_id}
    IN IF found = {} THEN None
       ELSE Some(CHOOSE s \in found : s.id = Min({k.id : k \in found}))

\* SettingAutocompleteService.update(setting_autocomplete_id, data_url, sheet,
\* from_row, to_row, field_id): all descriptor columns are overwritten.
SettingAutocompleteService_update(c, setting_autocomplete_id, data_url, sheet, from_row, to_row, field_id) ==
    LET found == {s \in c.db.settings : s.id = setting_autocomplete_id}
        c1 == Logged(c, "Setting.update")
    IN IF found = {} THEN Val(c1, None)
       ELSE LET old == CHOOSE s \in found : TRUE
                row == [old EXCEPT !.data_url = data_url, !.sheet = sheet,
                                   !.from_row = from_row, !.to_row = to_row,
                                   !.field_id = field_id]
            IN Val([c1 EXCEPT !.db.settings = (@ \ {old}) \cup {row}], Some(row))

\* The unit of work every mutating entry point runs inside (section 6):
\* commit when the call returns, roll the store back when it raises.
transaction_decorator(db, r) ==
    IF r.err = "ok" THEN r ELSE [r EXCEPT !.db = db]

\* The uniqueness conflict that makes the store refuse a new Field row.
FieldConflict(db, name, owner_id) ==
    \E f \in db.fields : f.name = name /\ f.owner_id = owner_id

\* --------------------------------------------------------- schema views
EmptyMap == [k \in {} |-> None]
Put(d, k, v) == (k :> v) @@ d
\* dict.update(other)
Update(d, other) == other @@ d
Has(d, k) == k \in DOMAIN d

\* BasicField().dump(field): the base JSON view; dumping None gives {}.
BasicField_dump(field) ==
    IF field = None THEN EmptyMap
    ELSE LET f == field[1]
         IN [k \in {"id", "name", "ownerId", "fieldType"} |->
                CASE k = "id" -> f.id
                  [] k = "name" -> f.name
                  [] k = "ownerId" -> f.owner_id
                  [] OTHER -> f.field_type]

\* FieldRadioSchema().dump(field): the base view and the (still empty)
\* choiceOptions list of the row.
FieldRadioSchema_dump(field) ==
    IF field = None THEN EmptyMap
    ELSE Put(BasicField_dump(field), "choiceOptions", <<>>)

\* ------------------------------------------------------------ FieldService
\* FieldService.create: a new Field row, or None when the store refuses it.
FieldService_create(c, name, owner_id, field_type, is_strict) ==
    LET row == [id |-> NextId(c.db.fields), name |-> name, owner_id |-> owner_id,
                field_type |-> field_type, is_strict |-> is_strict]
        c1 == Logged(c, "Field.create")
    IN IF Fails(c, "Field.create") \/ FieldConflict(c.db, name, owner_id)
       THEN Val(c1, None)
       ELSE Val([c1 EXCEPT !.db.fields = @ \cup {row}], Some(row))

\* FieldService.get_by_id
FieldService_get_by_id(db, field_id) ==
    LET found == {f \in db.fields : f.id = field_id}
    IN IF found = {} THEN None ELSE Some(CHOOSE f \in found : TRUE)

\* FieldService.update: val is the updated instance; err is FieldNotExist
\* when the id has no row.
FieldService_update(c, field_id, name, owner_id, field_type, is_strict) ==
    LET instance == FieldService_get_by_id(c.db, field_id)
    IN IF instance = None
       THEN [c |-> c, val |-> None, err |-> "FieldNotExist"]
       ELSE LET i0 == instance[1]
                i1 == IF name # None THEN [i0 EXCEPT !.name = name[1]] ELSE i0
                i2 == IF owner_id # None THEN [i1 EXCEPT !.owner_id = owner_id[1]] ELSE i1
                i3 == IF field_type # None THEN [i2 EXCEPT !.field_type = field_type[1]] ELSE i2
                i4 == IF is_strict # None THEN [i3 EXCEPT !.is_strict = is_strict[1]] ELSE i3
                c1 == Logged(c, "Field.update")
            IN [c |-> [c1 EXCEPT !.db.fields = (@ \ {i0}) \cup {i4}],
                val |-> Some(i4), err |-> "ok"]

\* Variant: the range is shown only when it has both bounds.
RangeView_both_bounds(db, range_field) ==
    LET field_range == RangeService_get_by_id(db, range_field[1].range_id)
    IN IF field_range # None /\ field_range[1].min # None /\ field_range[1].max # None
       THEN Some([min |-> field_range[1].min, max |-> field_range[1].max])
       ELSE None

\* The range sub-object both option readers build from a link row.
RangeView(db, range_field) ==
    LET field_range == RangeService_get_by_id(db, range_field[1].range_id)
    IN IF field_range # None
       THEN Some([min |-> field_range[1].min, max |-> field_range[1].max])
       ELSE None

\* FieldService._get_text_or_number_additional_options
get_text_or_number_additional_options(db, field_id) ==
    LET range_field == FieldRangeService_get_by_field_id(db, field_id)
        field == FieldService_get_by_id(db, field_id)
    IN IF field = None THEN [err |-> "AttributeError", val |-> None]
       ELSE LET d1 == IF field[1].is_strict THEN Put(EmptyMap, "isStrict", TRUE)
                      ELSE EmptyMap
                d2 == IF range_field # None /\ RangeView(db, range_field) # None
                      THEN Put(d1, "range", RangeView(db, range_field)[1])
                      ELSE d1
            IN [err |-> "ok", val |-> Some(d2)]

\* FieldService._get_choice_additional_options
RECURSIVE Texts(_)
Texts(rows) ==
    IF rows = <<>> THEN <<>> ELSE <<Head(rows).option_text>> \o Texts(Tail(rows))
get_choice_additional_options(db, field_id) ==
    LET options == ChoiceOptionService_filter(db, field_id)
        range_field == FieldRangeService_get_by_field_id(db, field_id)
    IN IF options = <<>> THEN [err |-> "FieldNotExist", val |-> None]
       ELSE LET d1 == Put(EmptyMap, "choiceOptions", Texts(options))
                d2 == IF range_field # None /\ RangeView(db, range_field) # None
                      THEN Put(d1, "range", RangeView(db, range_field)[1])
                      ELSE d1
            IN [err |-> "ok", val |-> Some(d2)]

\* FieldService._get_autocomplete_additional_options
get_autocomplete_additional_options(db, field_id) ==
    LET settings_autocomplete == SettingAutocompleteService_get_by_field_id(db, field_id)
    IN IF settings_autocomplete = None
       THEN [err |-> "SettingAutocompleteNotExist", val |-> None]
       ELSE LET s == settings_autocomplete[1]
            IN [err |-> "ok",
                val |-> Some(Put(EmptyMap, "settingAutocomplete",
                                 [dataUrl |-> s.data_url, sheet |-> s.sheet,
                                  fromRow |-> s.from_row, toRow |-> s.to_row]))]

\* Variant: a field without options yields the empty mapping, not None.
get_additional_options_defaulting(db, field_id, field_type) ==
    IF field_type \in {"Radio", "Checkbox"}
       /\ get_choice_additional_options(db, field_id).err = "FieldNotExist"
    THEN [err |-> "ok", val |-> Some(EmptyMap)]
    ELSE CASE field_type \in {"Number", "Text"} ->
                 get_text_or_number_additional_options(db, field_id)
           [] field_type = "TextArea" -> [err |-> "ok", val |-> Some(EmptyMap)]
           [] field_type \in {"Radio", "Checkbox"} ->
                 get_choice_additional_options(db, field_id)
           [] OTHER -> get_autocomplete_additional_options(db, field_id)

\* Variant: FieldNotExist is not caught.
get_additional_options_propagating(db, field_id, field_type) ==
    CASE field_type \in {"Number", "Text"} ->
             get_text_or_number_additional_options(db, field_id)
      [] field_type = "TextArea" -> [err |-> "ok", val |-> Some(EmptyMap)]
      [] field_type \in {"Radio", "Checkbox"} ->
             get_choice_additional_options(db, field_id)
      [] field_type = "Autocomplete" ->
             get_autocomplete_additional_options(db, field_id)
      [] OTHER -> [err |-> "ok", val |-> None]

\* Variant: every error is caught and turned into None.
get_additional_options_swallowing(db, field_id, field_type) ==
    LET r == get_additional_options_propagating(db, field_id, field_type)
    IN IF r.err # "ok" THEN [err |-> "ok", val |-> None] ELSE r

\* FieldService.get_additional_options: only FieldNotExist is caught, and
\* turned into a None result.
get_additional_options(db, field_id, field_type) ==
    LET r == CASE field_type \in {"Number", "Text"} ->
                    get_text_or_number_additional_options(db, field_id)
               [] field_type = "TextArea" -> [err |-> "ok", val |-> Some(EmptyMap)]
               [] field_type \in {"Radio", "Checkbox"} ->
                    get_choice_additional_options(db, field_id)
               [] field_type = "Autocomplete" ->
                    get_autocomplete_additional_options(db, field_id)
               [] OTHER -> [err |-> "ok", val |-> None]
    IN IF r.err = "FieldNotExist" THEN [err |-> "ok", val |-> None] ELSE r

\* Variant: additional options of None are merged as an empty mapping.
MergeAdditional_lenient(c, data, field) ==
    LET extra == get_additional_options(c.db, field.id, field.field_type)
    IN IF extra.err # "ok" THEN Raise(c, extra.err)
       ELSE IF extra.val = None THEN Return(c, data)
       ELSE Return(c, Update(data, extra.val[1]))

\* data.update(FieldService.get_additional_options(...)); return data
MergeAdditional(c, data, field) ==
    LET extra == get_additional_options(c.db, field.id, field.field_type)
    IN IF extra.err # "ok" THEN Raise(c, extra.err)
       ELSE IF extra.val = None THEN Raise(c, "TypeError")
       ELSE Return(c, Update(data, extra.val[1]))

\* ------------------------------------------------------- create operations
\* Variant: a bound is taken as supplied when it is truthy.
create_text_or_number_field_truthy(db, name, owner_id, field_type, is_strict, range_min, range_max, fault) ==
    LET r1 == FieldService_create(Ctx(db, fault), name, owner_id, field_type, is_strict)
        field == r1.val
        truthy(b) == b # None /\ b[1] # 0
    IN IF field = None THEN Raise(r1.c, "FieldAlreadyExist")
       ELSE LET data0 == BasicField_dump(field)
                data1 == IF is_strict THEN Put(data0, "isStrict", is_strict) ELSE data0
            IN IF truthy(range_min) \/ truthy(range_max)
               THEN LET r2 == RangeService_create(r1.c, range_min, range_max)
                        r3 == FieldRangeService_create(r2.c, field[1].id, r2.val[1].id)
                    IN Return(r3.c, Put(data1, "range",
                                        [min |-> range_min, max |-> range_max]))
               ELSE Return(r1.c, data1)

\* FieldService.create_text_or_number_field, inside its unit of work.
create_text_or_number_field_body(db, name, owner_id, field_type, is_strict, range_min, range_max, fault) ==
    LET r1 == FieldService_create(Ctx(db, fault), name, owner_id, field_type, is_strict)
        field == r1.val
    IN IF field = None THEN Raise(r1.c, "FieldAlreadyExist")
       ELSE LET data0 == BasicField_dump(field)
                data1 == IF is_strict THEN Put(data0, "isStrict", is_strict) ELSE data0
            IN IF range_min # None \/ range_max # None
               THEN LET r2 == RangeService_create(r1.c, range_min, range_max)
                        r3 == FieldRangeService_create(r2.c, field[1].id, r2.val[1].id)
                    IN Return(r3.c, Put(data1, "range",
                                        [min |-> range_min, max |-> range_max]))
               ELSE Return(r1.c, data1)

create_text_or_number_field(db, name, owner_id, field_type, is_strict, range_min, range_max, fault) ==
    transaction_decorator(db,
        create_text_or_number_field_body(db, name, owner_id, field_type, is_strict,
                                         range_min, range_max, fault))

\* FieldService.create_text_area
create_text_area_body(db, name, owner_id, field_type, fault) ==
    LET r1 == FieldService_create(Ctx(db, fault), name, owner_id, field_type, FALSE)
    IN IF r1.val = None THEN Raise(r1.c, "FieldAlreadyExist")
       ELSE Return(r1.c, BasicField_dump(r1.val))

create_text_area(db, name, owner_id, field_type, fault) ==
    transaction_decorator(db, create_text_area_body(db, name, owner_id, field_type, fault))

\* Variant: each option is put at the front of the returned list.
RECURSIVE CreateOptions_prepending(_, _, _, _)
CreateOptions_prepending(c, data, field, options) ==
    IF options = <<>> THEN Return(c, data)
    ELSE IF ~Has(data, "choiceOptions") THEN Raise(c, "KeyError")
    ELSE IF field = None THEN Raise(c, "AttributeError")
    ELSE LET d1 == [data EXCEPT !["choiceOptions"] = <<Head(options)>> \o @]
             r == ChoiceOptionService_create(c, field[1].id, Head(options))
         IN CreateOptions_prepending(r.c, d1, field, Tail(options))

\* for option in choice_options: data['choiceOptions'].append(option);
\*                               ChoiceOptionService.create(field.id, option)
\* The loop of both create operations; the answer of create is not read.
RECURSIVE CreateOptions(_, _, _, _)
CreateOptions(c, data, field, options) ==
    IF options = <<>> THEN Return(c, data)
    ELSE IF ~Has(data, "choiceOptions") THEN Raise(c, "KeyError")
    ELSE IF field = None THEN Raise(c, "AttributeError")
    ELSE LET d1 == [data EXCEPT !["choiceOptions"] = Append(@, Head(options))]
             r == ChoiceOptionService_create(c, field[1].id, Head(options))
         IN CreateOptions(r.c, d1, field, Tail(options))

\* not choice_options: None and the empty list are both falsy.
Falsy(choice_options) == choice_options = None \/ choice_options[1] = <<>>

\* FieldService.create_radio_field
create_radio_field_body(db, name, owner_id, field_type, choice_options, is_strict, fault) ==
    IF Falsy(choice_options) THEN Raise(Ctx(db, fault), "ChoiceNotSend")
    ELSE LET r1 == FieldService_create(Ctx(db, fault), name, owner_id, field_type,
                                       is_strict)
             field == r1.val
         IN IF field = None THEN Raise(r1.c, "FieldAlreadyExist")
            ELSE LET data == Put(FieldRadioSchema_dump(field), "choiceOptions", <<>>)
                 IN CreateOptions(r1.c, data, field, choice_options[1])

\* Variant: the options are not tested before the field is written.
create_radio_field_unchecked(db, name, owner_id, field_type, choice_options, is_strict, fault) ==
    LET r1 == FieldService_create(Ctx(db, fault), name, owner_id, field_type, is_strict)
        field == r1.val
    IN transaction_decorator(db,
         IF field = None THEN Raise(r1.c, "FieldAlreadyExist")
         ELSE CreateOptions(r1.c, Put(FieldRadioSchema_dump(field), "choiceOptions", <<>>),
                            field, IF choice_options = None THEN <<>>
                                   ELSE choice_options[1]))

create_radio_field(db, name, owner_id, field_type, choice_options, is_strict, fault) ==
    transaction_decorator(db,
        create_radio_field_body(db, name, owner_id, field_type, choice_options,
                                is_strict, fault))

\* FieldService.create_checkbox_field: the created field is not tested for
\* None before it is dumped and dereferenced.
create_checkbox_field_body(db, name, owner_id, field_type, choice_options, is_strict, range_min, range_max, fault) ==
    IF Falsy(choice_options) THEN Raise(Ctx(db, fault), "ChoiceNotSend")
    ELSE LET r1 == FieldService_create(Ctx(db, fault), name, owner_id, field_type,
                                       is_strict)
             field == r1.val
             data == FieldRadioSchema_dump(field)
         IN IF range_min # None \/ range_max # None
            THEN LET r2 == RangeService_create(r1.c, range_min, range_max)
                 IN IF field = None THEN Raise(r2.c, "AttributeError")
                    ELSE LET r3 == FieldRangeService_create(r2.c, field[1].id,
                                                            r2.val[1].id)
                         IN CreateOptions(r3.c,
                                Put(data, "range", [min |-> range_min, max |-> range_max]),
                                field, choice_options[1])
            ELSE CreateOptions(r1.c, data, field, choice_options[1])

create_checkbox_field(db, name, owner_id, field_type, choice_options, is_strict, range_min, range_max, fault) ==
    transaction_decorator(db,
        create_checkbox_field_body(db, name, owner_id, field_type, choice_options,
                                   is_strict, range_min, range_max, fault))

\* FieldService.create_autocomplete_field
create_autocomplete_field_body(db, name, owner_id, field_type, data_url, sheet, from_row, to_row, is_strict, fault) ==
    LET r1 == FieldService_create(Ctx(db, fault), name, owner_id, field_type, is_strict)
        field == r1.val
    IN IF field = None THEN Raise(r1.c, "FieldNotExist")
       ELSE LET data == BasicField_dump(field)
                r2 == SettingAutocompleteService_create(r1.c, data_url, sheet,
                                                        from_row, to_row, field[1].id)
                settings_ == r2.val
            IN IF settings_ = None THEN Raise(r2.c, "SettingAutocompleteNotExist")
               ELSE Return(r2.c, Put(data, "settingAutocomplete",
                                     [dataUrl |-> settings_[1].data_url,
                                      sheet |-> settings_[1].sheet,
                                      fromRow |-> settings_[1].from_row,
                                      toRow |-> settings_[1].to_row]))

\* Variant: the answer of the setting's creation is not tested.
create_autocomplete_field_unchecked(db, name, owner_id, field_type, data_url, sheet, from_row, to_row, is_strict, fault) ==
    LET r1 == FieldService_create(Ctx(db, fault), name, owner_id, field_type, is_strict)
        field == r1.val
    IN transaction_decorator(db,
         IF field = None THEN Raise(r1.c, "FieldNotExist")
         ELSE LET r2 == SettingAutocompleteService_create(r1.c, data_url, sheet,
                                                          from_row, to_row, field[1].id)
              IN Return(r2.c, BasicField_dump(field)))

create_autocomplete_field(db, name, owner_id, field_type, data_url, sheet, from_row, to_row, is_strict, fault) ==
    transaction_decorator(db,
        create_autocomplete_field_body(db, name, owner_id, field_type, data_url, sheet,
                                       from_row, to_row, is_strict, fault))

\* ------------------------------------------------------- update operations
\* Variant: a new link row is created whether or not the field has one.
RangeBranch_always_create(c, field, field_range, range_min, range_max, delete_range) ==
    IF delete_range
    THEN IF field_range = None THEN [c |-> c, err |-> "FieldRangeNotDeleted"]
         ELSE LET r == FieldRangeService_delete(c, field.id)
              IN IF r.val = None THEN [c |-> r.c, err |-> "FieldRangeNotDeleted"]
                 ELSE [c |-> r.c, err |-> "ok"]
    ELSE IF range_min # None \/ range_max # None
         THEN LET r2 == RangeService_create(c, range_min, range_max)
              IN [c |-> FieldRangeService_create(r2.c, field.id, r2.val[1].id).c,
                  err |-> "ok"]
         ELSE [c |-> c, err |-> "ok"]

\* Variant: a call without bounds clears the field's range.
RangeBranch_clearing(c, field, field_range, range_min, range_max, delete_range) ==
    IF delete_range
    THEN IF field_range = None THEN [c |-> c, err |-> "FieldRangeNotDeleted"]
         ELSE LET r == FieldRangeService_delete(c, field.id)
              IN IF r.val = None THEN [c |-> r.c, err |-> "FieldRangeNotDeleted"]
                 ELSE [c |-> r.c, err |-> "ok"]
    ELSE IF range_min # None \/ range_max # None
         THEN LET r2 == RangeService_create(c, range_min, range_max)
                  r3 == IF field_range # None
                        THEN FieldRangeService_update(r2.c, field.id, r2.val[1].id)
                        ELSE FieldRangeService_create(r2.c, field.id, r2.val[1].id)
              IN [c |-> r3.c, err |-> "ok"]
         ELSE IF field_range # None
              THEN [c |-> FieldRangeService_delete(c, field.id).c, err |-> "ok"]
              ELSE [c |-> c, err |-> "ok"]

\* Variant: the bounds of the Range the field is linked to are overwritten.
RangeBranch_in_place(c, field, field_range, range_min, range_max, delete_range) ==
    IF delete_range
    THEN IF field_range = None THEN [c |-> c, err |-> "FieldRangeNotDeleted"]
         ELSE LET r == FieldRangeService_delete(c, field.id)
              IN IF r.val = None THEN [c |-> r.c, err |-> "FieldRangeNotDeleted"]
                 ELSE [c |-> r.c, err |-> "ok"]
    ELSE IF range_min # None \/ range_max # None
         THEN IF field_range # None
              THEN LET old == RangeService_get_by_id(c.db, field_range[1].range_id)[1]
                       new == [old EXCEPT !.min = range_min, !.max = range_max]
                   IN [c |-> [c EXCEPT !.db.ranges = (@ \ {old}) \cup {new}],
                       err |-> "ok"]
              ELSE LET r2 == RangeService_create(c, range_min, range_max)
                   IN [c |-> FieldRangeService_create(r2.c, field.id, r2.val[1].id).c,
                       err |-> "ok"]
         ELSE [c |-> c, err |-> "ok"]

\* The range branch of update_text_or_number_field and update_checkbox_field:
\* [c, err] after the branch.
RangeBranch(c, field, field_range, range_min, range_max, delete_range) ==
    IF delete_range
    THEN IF field_range = None THEN [c |-> c, err |-> "FieldRangeNotDeleted"]
         ELSE LET r == FieldRangeService_delete(c, field.id)
              IN IF r.val = None THEN [c |-> r.c, err |-> "FieldRangeNotDeleted"]
                 ELSE [c |-> r.c, err |-> "ok"]
    ELSE IF range_min # None \/ range_max # None
         THEN LET r2 == RangeService_create(c, range_min, range_max)
                  r3 == IF field_range # None
                        THEN FieldRangeService_update(r2.c, field.id, r2.val[1].id)
                        ELSE FieldRangeService_create(r2.c, field.id, r2.val[1].id)
              IN [c |-> r3.c, err |-> "ok"]
         ELSE [c |-> c, err |-> "ok"]

\* Variant: the result echoes the arguments instead of re-reading the store.
update_text_or_number_field_echo(db, field_id, name, range_min, range_max, delete_range, is_strict, fault) ==
    LET r1 == FieldService_update(Ctx(db, fault), field_id, name, None, None, is_strict)
    IN IF r1.err # "ok" THEN Raise(r1.c, r1.err)
       ELSE LET field == r1.val[1]
                data == BasicField_dump(r1.val)
                field_range == FieldRangeService_get_by_field_id(r1.c.db, field_id)
                b == RangeBranch(r1.c, field, field_range, range_min, range_max,
                                 delete_range)
                d1 == IF is_strict = Some(TRUE) THEN Put(data, "isStrict", TRUE) ELSE data
                d2 == IF ~delete_range /\ (range_min # None \/ range_max # None)
                      THEN Put(d1, "range", [min |-> range_min, max |-> range_max])
                      ELSE d1
            IN IF b.err # "ok" THEN Raise(b.c, b.err) ELSE Return(b.c, d2)

\* Variant: the update passes a field_type on to FieldService.update.
update_text_or_number_field_retyping(db, field_id, name, range_min, range_max, delete_range, is_strict, fault) ==
    LET r1 == FieldService_update(Ctx(db, fault), field_id, name, None, Some("Text"), is_strict)
    IN IF r1.err # "ok" THEN Raise(r1.c, r1.err)
       ELSE LET field == r1.val[1]
                data == BasicField_dump(r1.val)
                field_range == FieldRangeService_get_by_field_id(r1.c.db, field_id)
                b == RangeBranch(r1.c, field, field_range, range_min, range_max,
                                 delete_range)
            IN IF b.err # "ok" THEN Raise(b.c, b.err)
               ELSE MergeAdditional(b.c, data, field)

\* FieldService.update_text_or_number_field
update_text_or_number_field_body(db, field_id, name, range_min, range_max, delete_range, is_strict, fault) ==
    LET r1 == FieldService_update(Ctx(db, fault), field_id, name, None, None, is_strict)
    IN IF r1.err # "ok" THEN Raise(r1.c, r1.err)
       ELSE LET field == r1.val[1]
                data == BasicField_dump(r1.val)
                field_range == FieldRangeService_get_by_field_id(r1.c.db, field_id)
                b == RangeBranch(r1.c, field, field_range, range_min, range_max,
                                 delete_range)
            IN IF b.err # "ok" THEN Raise(b.c, b.err)
               ELSE MergeAdditional(b.c, data, field)

\* Variant: the operation runs outside a unit of work.
update_text_or_number_field_undecorated(db, field_id, name, range_min, range_max, delete_range, is_strict, fault) ==
    update_text_or_number_field_body(db, field_id, name, range_min, range_max,
                                     delete_range, is_strict, fault)

update_text_or_number_field(db, field_id, name, range_min, range_max, delete_range, is_strict, fault) ==
    transaction_decorator(db,
        update_text_or_number_field_body(db, field_id, name, range_min, range_max,
                                         delete_range, is_strict, fault))

\* The add loop of update_radio_field and update_checkbox_field.
RECURSIVE AddOptions(_, _, _)
AddOptions(c, field, added) ==
    IF added = <<>> THEN [c |-> c, err |-> "ok"]
    ELSE LET r == ChoiceOptionService_create(c, field.id, Head(added))
         IN IF r.val = None THEN [c |-> r.c, err |-> "ChoiceOptionNotCreated"]
            ELSE AddOptions(r.c, field, Tail(added))

\* The remove loop of update_radio_field and update_checkbox_field: the
\* option that was looked up is dereferenced before it is tested.
RECURSIVE RemoveOptions(_, _, _)
RemoveOptions(c, field, removed) ==
    IF removed = <<>> THEN [c |-> c, err |-> "ok"]
    ELSE LET option == ChoiceOptionService_get_by_field_and_text(c.db, field.id,
                                                                 Head(removed))
         IN IF option = None THEN [c |-> c, err |-> "AttributeError"]
            ELSE LET r == ChoiceOptionService_delete(c, option[1].id)
                 IN IF r.val = None THEN [c |-> r.c, err |-> "ChoiceOptionNotDeleted"]
                    ELSE RemoveOptions(r.c, field, Tail(removed))

\* Variant: the remove loop runs before the add loop.
OptionBranch_removes_first(c, field, added_choice_options, removed_choice_options) ==
    LET d == IF Falsy(removed_choice_options) THEN [c |-> c, err |-> "ok"]
             ELSE RemoveOptions(c, field, removed_choice_options[1])
    IN IF d.err # "ok" THEN d
       ELSE IF Falsy(added_choice_options) THEN d
       ELSE AddOptions(d.c, field, added_choice_options[1])

\* if added_choice_options: ... if removed_choice_options: ...
OptionBranch(c, field, added_choice_options, removed_choice_options) ==
    LET a == IF Falsy(added_choice_options) THEN [c |-> c, err |-> "ok"]
             ELSE AddOptions(c, field, added_choice_options[1])
    IN IF a.err # "ok" THEN a
       ELSE IF Falsy(removed_choice_options) THEN a
       ELSE RemoveOptions(a.c, field, removed_choice_options[1])

\* Variant: an id without a Field row is answered with an empty result.
update_radio_field_silent(db, field_id, name, added_choice_options, removed_choice_options, fault) ==
    LET r1 == FieldService_update(Ctx(db, fault), field_id, name, None, None, None)
    IN IF r1.err # "ok" THEN Return(r1.c, EmptyMap)
       ELSE LET field == r1.val[1]
                data == FieldRadioSchema_dump(r1.val)
                b == OptionBranch(r1.c, field, added_choice_options,
                                  removed_choice_options)
            IN IF b.err # "ok" THEN Raise(b.c, b.err)
               ELSE MergeAdditional(b.c, data, field)

\* FieldService.update_radio_field
update_radio_field_body(db, field_id, name, added_choice_options, removed_choice_options, fault) ==
    LET r1 == FieldService_update(Ctx(db, fault), field_id, name, None, None, None)
    IN IF r1.err # "ok" THEN Raise(r1.c, r1.err)
       ELSE LET field == r1.val[1]
                data == FieldRadioSchema_dump(r1.val)
                b == OptionBranch(r1.c, field, added_choice_options,
                                  removed_choice_options)
            IN IF b.err # "ok" THEN Raise(b.c, b.err)
               ELSE MergeAdditional(b.c, data, field)

update_radio_field(db, field_id, name, added_choice_options, removed_choice_options, fault) ==
    transaction_decorator(db,
        update_radio_field_body(db, field_id, name, added_choice_options,
                                removed_choice_options, fault))

\* Variant: from_row is passed for to_row as well.
update_autocomplete_field_swapped(db, field_id, name, data_url, sheet, from_row, to_row, fault) ==
    LET r1 == FieldService_update(Ctx(db, fault), field_id, name, None, None, None)
    IN IF r1.err # "ok" THEN Raise(r1.c, r1.err)
       ELSE LET field == r1.val[1]
                settings_ == SettingAutocompleteService_get_by_field_id(r1.c.db, field.id)
            IN IF settings_ = None THEN Raise(r1.c, "SettingAutocompleteNotExist")
               ELSE MergeAdditional(
                        SettingAutocompleteService_update(r1.c, settings_[1].id,
                            data_url, sheet, from_row, from_row, field.id).c,
                        BasicField_dump(r1.val), field)

\* Variant: a missing setting row is created instead of being an error.
update_autocomplete_field_upsert(db, field_id, name, data_url, sheet, from_row, to_row, fault) ==
    LET r1 == FieldService_update(Ctx(db, fault), field_id, name, None, None, None)
    IN IF r1.err # "ok" THEN Raise(r1.c, r1.err)
       ELSE LET field == r1.val[1]
                settings_ == SettingAutocompleteService_get_by_field_id(r1.c.db, field.id)
                r2 == IF settings_ = None
                      THEN SettingAutocompleteService_create(r1.c, data_url, sheet,
                                                             from_row, to_row, field.id)
                      ELSE SettingAutocompleteService_update(r1.c, settings_[1].id,
                               data_url, sheet, from_row, to_row, field.id)
            IN Return(r2.c, BasicField_dump(r1.val))

\* FieldService.update_autocomplete_field
update_autocomplete_field_body(db, field_id, name, data_url, sheet, from_row, to_row, fault) ==
    LET r1 == FieldService_update(Ctx(db, fault), field_id, name, None, None, None)
    IN IF r1.err # "ok" THEN Raise(r1.c, r1.err)
       ELSE LET field == r1.val[1]
                data == BasicField_dump(r1.val)
                settings_ == SettingAutocompleteService_get_by_field_id(r1.c.db, field.id)
            IN IF settings_ = None THEN Raise(r1.c, "SettingAutocompleteNotExist")
               ELSE LET r2 == SettingAutocompleteService_update(r1.c, settings_[1].id,
                                  data_url, sheet, from_row, to_row, field.id)
                    IN MergeAdditional(r2.c, data, field)

update_autocomplete_field(db, field_id, name, data_url, sheet, from_row, to_row, fault) ==
    transaction_decorator(db,
        update_autocomplete_field_body(db, field_id, name, data_url, sheet, from_row,
                                       to_row, fault))

\* Variant: the option branch runs before the range branch.
update_checkbox_field_options_first(db, field_id, name, range_max, range_min, delete_range, added_choice_options, removed_choice_options, fault) ==
    LET r1 == FieldService_update(Ctx(db, fault), field_id, name, None, None, None)
    IN IF r1.err # "ok" THEN Raise(r1.c, r1.err)
       ELSE LET field == r1.val[1]
                data == FieldRadioSchema_dump(r1.val)
                field_range == FieldRangeService_get_by_field_id(r1.c.db, field.id)
                o == OptionBranch(r1.c, field, added_choice_options,
                                  removed_choice_options)
            IN IF o.err # "ok" THEN Raise(o.c, o.err)
               ELSE LET b == RangeBranch(o.c, field, field_range, range_min,
                                         range_max, delete_range)
                    IN IF b.err # "ok" THEN Raise(b.c, b.err)
                       ELSE MergeAdditional(b.c, data, field)

\* FieldService.update_checkbox_field: the range branch, then the options.
update_checkbox_field_body(db, field_id, name, range_max, range_min, delete_range, added_choice_options, removed_choice_options, fault) ==
    LET r1 == FieldService_update(Ctx(db, fault), field_id, name, None, None, None)
    IN IF r1.err # "ok" THEN Raise(r1.c, r1.err)
       ELSE LET field == r1.val[1]
                data == FieldRadioSchema_dump(r1.val)
                field_range == FieldRangeService_get_by_field_id(r1.c.db, field.id)
                b == RangeBranch(r1.c, field, field_range, range_min, range_max,
                                 delete_range)
            IN IF b.err # "ok" THEN Raise(b.c, b.err)
               ELSE LET o == OptionBranch(b.c, field, added_choice_options,
                                          removed_choice_options)
                    IN IF o.err # "ok" THEN Raise(o.c, o.err)
                       ELSE MergeAdditional(o.c, data, field)

\* Variant: the operation runs outside a unit of work.
update_checkbox_field_undecorated(db, field_id, name, range_max, range_min, delete_range, added_choice_options, removed_choice_options, fault) ==
    update_checkbox_field_body(db, field_id, name, range_max, range_min,
                               delete_range, added_choice_options,
                               removed_choice_options, fault)

update_checkbox_field(db, field_id, name, range_max, range_min, delete_range, added_choice_options, removed_choice_options, fault) ==
    transaction_decorator(db,
        update_checkbox_field_body(db, field_id, name, range_max, range_min,
                                   delete_range, added_choice_options,
                                   removed_choice_options, fault))

\* ------------------------------------------------------------ state machine
\* No call is in progress; ranged is the field whose range the call just
\* answered replaced or attached (0 when it did neither).
Idle(ranged) == [op |-> "idle", ranged |-> ranged]

\* The call supplied a bound on the range-update path.
RangeUpdateArgs(op, args) ==
    /\ op \in {"update_text_or_number_field", "update_checkbox_field"}
    /\ ~args.delete_range
    /\ (args.range_min # None \/ args.range_max # None)

\* The request-serving layer runs at most one engine call per worker.
Procs == {1, 2}
NotCalling == [pc |-> "idle"]
NoCalls == [p \in Procs |-> NotCalling]

Init ==
    /\ t_fields = {}
    /\ t_ranges = {}
    /\ t_field_ranges = {}
    /\ t_choice_options = <<>>
    /\ t_settings = {}
    /\ last = Idle(0)
    /\ calls = NoCalls

\* The injected failure report was actually consumed by the call.
Fired(r, fault) == IF fault = NoFault THEN TRUE ELSE Count(r.log, fault.op) >= fault.at

\* One engine call ran to its end: the store is what the call left, and
\* last records the call.
Called(op, args, fault, r) ==
    /\ last.op = "idle"
    /\ Fired(r, fault)
    /\ Cardinality(r.db.fields) <= MaxFields
    /\ Cardinality(r.db.ranges) <= MaxRanges
    /\ Len(r.db.choice_options) <= MaxOptions
    /\ t_fields' = r.db.fields
    /\ t_ranges' = r.db.ranges
    /\ t_field_ranges' = r.db.field_ranges
    /\ t_choice_options' = r.db.choice_options
    /\ t_settings' = r.db.settings
    /\ last' = [op |-> op, args |-> args, fault |-> fault, pre |-> Store,
                prior |-> last.ranged, err |-> r.err, data |-> r.data, log |-> r.log]
    /\ UNCHANGED calls

\* The caller takes the answer; the next call can start.
Respond ==
    /\ last.op # "idle"
    /\ last' = Idle(IF last.err = "ok" /\ RangeUpdateArgs(last.op, last.args)
                    THEN last.args.field_id ELSE 0)
    /\ UNCHANGED <<t_fields, t_ranges, t_field_ranges, t_choice_options, t_settings, calls>>

\* The store holds one field per (owner, name): a rename onto another
\* field's name is outside the inputs.
\* The request layer routes an update to the operation of the field's type;
\* an id without a row can reach every update operation.
Routed(field_id, types) ==
    \A f \in t_fields : f.id = field_id => f.field_type \in types

FreeName(field_id, name) ==
    IF name = None THEN TRUE
    ELSE \A f \in t_fields : f.id # field_id => f.name # name[1]

CreateTextOrNumber ==
    /\ last.op = "idle"
    /\ \E name \in Names, owner_id \in Owners, field_type \in {"Text", "Number"},
       is_strict \in BOOLEAN, range_min \in RangeMins, range_max \in RangeMaxs,
       fault \in {NoFault, [op |-> "Field.create", at |-> 1]} :
        Called("create_text_or_number_field",
                  [name |-> name, owner_id |-> owner_id, field_type |-> field_type,
                   is_strict |-> is_strict, range_min |-> range_min,
                   range_max |-> range_max],
                  fault,
                  create_text_or_number_field(Store, name, owner_id, field_type,
                                              is_strict, range_min, range_max, fault))

CreateTextArea ==
    /\ last.op = "idle"
    /\ \E name \in Names, owner_id \in Owners,
       fault \in {NoFault, [op |-> "Field.create", at |-> 1]} :
        Called("create_text_area",
                  [name |-> name, owner_id |-> owner_id, field_type |-> "TextArea"],
                  fault,
                  create_text_area(Store, name, owner_id, "TextArea", fault))

CreateRadio ==
    /\ last.op = "idle"
    /\ \E name \in Names, owner_id \in Owners, choice_options \in OptionArgs,
       fault \in {NoFault, [op |-> "Field.create", at |-> 1]} :
        Called("create_radio_field",
                  [name |-> name, owner_id |-> owner_id, field_type |-> "Radio",
                   choice_options |-> choice_options, is_strict |-> FALSE],
                  fault,
                  create_radio_field(Store, name, owner_id, "Radio", choice_options,
                                     FALSE, fault))

CreateCheckbox ==
    /\ last.op = "idle"
    /\ \E name \in Names, owner_id \in Owners, choice_options \in OptionArgs,
       range_min \in RangeMins, range_max \in RangeMaxs,
       fault \in {NoFault, [op |-> "Field.create", at |-> 1]} :
        Called("create_checkbox_field",
                  [name |-> name, owner_id |-> owner_id, field_type |-> "Checkbox",
                   choice_options |-> choice_options, is_strict |-> FALSE,
                   range_min |-> range_min, range_max |-> range_max],
                  fault,
                  create_checkbox_field(Store, name, owner_id, "Checkbox",
                                        choice_options, FALSE, range_min, range_max,
                                        fault))

CreateAutocomplete ==
    /\ last.op = "idle"
    /\ \E name \in Names, owner_id \in Owners, d \in Descriptors,
       fault \in {NoFault, [op |-> "Field.create", at |-> 1],
                  [op |-> "Setting.create", at |-> 1]} :
        Called("create_autocomplete_field",
                  [name |-> name, owner_id |-> owner_id, field_type |-> "Autocomplete",
                   data_url |-> d.data_url, sheet |-> d.sheet,
                   from_row |-> d.from_row, to_row |-> d.to_row, is_strict |-> FALSE],
                  fault,
                  create_autocomplete_field(Store, name, owner_id, "Autocomplete",
                                            d.data_url, d.sheet, d.from_row, d.to_row,
                                            FALSE, fault))

UpdateTextOrNumber ==
    /\ last.op = "idle"
    /\ \E field_id \in 1..(MaxFields + 1), name \in NameArgs,
       range_min \in RangeMins, range_max \in RangeMaxs, delete_range \in BOOLEAN,
       is_strict \in {None, Some(TRUE), Some(FALSE)},
       fault \in {NoFault, [op |-> "FieldRange.delete", at |-> 1]} :
        /\ Routed(field_id, {"Text", "Number"})
        /\ FreeName(field_id, name)
        /\ Called("update_text_or_number_field",
                  [field_id |-> field_id, name |-> name, range_min |-> range_min,
                   range_max |-> range_max, delete_range |-> delete_range,
                   is_strict |-> is_strict],
                  fault,
                  update_text_or_number_field(Store, field_id, name, range_min,
                                              range_max, delete_range, is_strict, fault))

UpdateRadio ==
    /\ last.op = "idle"
    /\ \E field_id \in 1..(MaxFields + 1), name \in NameArgs,
       added \in DeltaArgs, removed \in DeltaArgs,
       fault \in {NoFault, [op |-> "ChoiceOption.create", at |-> 1],
                  [op |-> "ChoiceOption.create", at |-> 2],
                  [op |-> "ChoiceOption.delete", at |-> 1]} :
        /\ Routed(field_id, {"Radio"})
        /\ FreeName(field_id, name)
        /\ Called("update_radio_field",
                  [field_id |-> field_id, name |-> name,
                   added_choice_options |-> added, removed_choice_options |-> removed],
                  fault,
                  update_radio_field(Store, field_id, name, added, removed, fault))

UpdateCheckbox ==
    /\ last.op = "idle"
    /\ \E field_id \in 1..(MaxFields + 1), name \in NameArgs,
       range_min \in RangeMins, range_max \in RangeMaxs, delete_range \in BOOLEAN,
       added \in DeltaArgs, removed \in DeltaArgs,
       fault \in {NoFault, [op |-> "FieldRange.delete", at |-> 1],
                  [op |-> "ChoiceOption.create", at |-> 1],
                  [op |-> "ChoiceOption.create", at |-> 2],
                  [op |-> "ChoiceOption.delete", at |-> 1]} :
        /\ Routed(field_id, {"Checkbox"})
        /\ FreeName(field_id, name)
        /\ Called("update_checkbox_field",
                  [field_id |-> field_id, name |-> name, range_max |-> range_max,
                   range_min |-> range_min, delete_range |-> delete_range,
                   added_choice_options |-> added, removed_choice_options |-> removed],
                  fault,
                  update_checkbox_field(Store, field_id, name, range_max, range_min,
                                        delete_range, added, removed, fault))

UpdateAutocomplete ==
    /\ last.op = "idle"
    /\ \E field_id \in 1..(MaxFields + 1), name \in NameArgs,
       d \in Descriptors :
        /\ Routed(field_id, FieldTypes)
        /\ FreeName(field_id, name)
        /\ Called("update_autocomplete_field",
                  [field_id |-> field_id, name |-> name, data_url |-> d.data_url,
                   sheet |-> d.sheet, from_row |-> d.from_row, to_row |-> d.to_row],
                  NoFault,
                  update_autocomplete_field(Store, field_id, name, d.data_url, d.sheet,
                                            d.from_row, d.to_row, NoFault))

\* FieldService.get_additional_options called on its own: a read, whose
\* answer is the mapping, None, or the error that left it.
GetAdditionalOptions ==
    /\ last.op = "idle"
    /\ \E field_id \in 1..(MaxFields + 1), field_type \in FieldTypes :
        LET x == get_additional_options(Store, field_id, field_type)
        IN Called("get_additional_options",
                  [field_id |-> field_id, field_type |-> field_type],
                  NoFault,
                  [db |-> Store, log |-> <<>>, err |-> x.err, data |-> x.val])

Next ==
    \/ CreateTextOrNumber
    \/ CreateTextArea
    \/ CreateRadio
    \/ CreateCheckbox
    \/ CreateAutocomplete
    \/ UpdateTextOrNumber
    \/ UpdateRadio
    \/ UpdateCheckbox
    \/ UpdateAutocomplete
    \/ GetAdditionalOptions
    \/ Respond

Spec == Init /\ [][Next]_vars

\* ------------------------------------------------------------ SheetManager
\* A cell reference is a string, modelled as the sequence of its characters:
\* the column letters, then the row digits.
Letters == {"A", "B", "a"}
CellRefs == {<<>>, <<"A">>, <<"A", "1">>, <<"a", "1">>, <<"B", "5">>,
             <<"A", "A", "1">>, <<"A", "B", "5">>}
SpreadsheetIds == {"sheet"}

\* What the remote data source answers to a values().get(): an HttpError,
\* a body without the key 'values', or a body with rows of cells.
Responses == {[error |-> TRUE, values |-> None],
              [error |-> FALSE, values |-> None],
              [error |-> FALSE, values |-> Some(<<<<"v">>, <<"w", "z">>>>)]}

\* SheetManager.lists_to_list on rows of cells: one flat list.
RECURSIVE lists_to_list(_)
lists_to_list(data) ==
    IF data = <<>> THEN <<>> ELSE Head(data) \o lists_to_list(Tail(data))

\* Variant: the column letters of the two references are compared.
RECURSIVE ColumnOf(_)
ColumnOf(ref) ==
    IF ref = <<>> \/ Head(ref) \notin Letters THEN <<>>
    ELSE <<Head(ref)>> \o ColumnOf(Tail(ref))

SameStart_by_column(from_row, to_row) == ColumnOf(from_row) = ColumnOf(to_row)

\* from_row[0] != to_row[0], negated: the first characters are equal.
SameStart(from_row, to_row) == from_row[1] = to_row[1]

\* SheetManager.get_data_with_range: requests are the ranges asked of the
\* remote source, caught the error handled inside, err the error that left
\* the call, val the returned list or None.
get_data_with_range(spreadsheet_id, from_row, to_row, response) ==
    IF from_row = <<>> \/ to_row = <<>>
    THEN [requests |-> <<>>, caught |-> "none", err |-> "IndexError", val |-> None]
    ELSE IF ~SameStart(from_row, to_row)
    THEN [requests |-> <<>>, caught |-> "WrongRange", err |-> "ok", val |-> None]
    ELSE LET ranges == from_row \o <<":">> \o to_row
             asked == <<[spreadsheetId |-> spreadsheet_id, range |-> ranges]>>
         IN IF response.error
            THEN [requests |-> asked, caught |-> "HttpError", err |-> "ok", val |-> None]
            ELSE IF response.values = None
            THEN [requests |-> asked, caught |-> "none", err |-> "TypeError", val |-> None]
            ELSE [requests |-> asked, caught |-> "none", err |-> "ok",
                  val |-> Some(lists_to_list(response.values[1]))]

\* A request for sheet data is pending with its arguments and the answer the
\* remote source will give.
InitSheet ==
    /\ t_fields = {}
    /\ t_ranges = {}
    /\ t_field_ranges = {}
    /\ t_choice_options = <<>>
    /\ t_settings = {}
    /\ calls = NoCalls
    /\ \E spreadsheet_id \in SpreadsheetIds, from_row \in CellRefs, to_row \in CellRefs,
          response \in Responses :
          last = [op |-> "sheet_request", spreadsheet_id |-> spreadsheet_id,
                  from_row |-> from_row, to_row |-> to_row, response |-> response]

GetDataWithRange ==
    /\ last.op = "sheet_request"
    /\ last' = [op |-> "get_data_with_range", spreadsheet_id |-> last.spreadsheet_id,
                from_row |-> last.from_row, to_row |-> last.to_row,
                response |-> last.response,
                out |-> get_data_with_range(last.spreadsheet_id, last.from_row,
                                            last.to_row, last.response)]
    /\ UNCHANGED <<t_fields, t_ranges, t_field_ranges, t_choice_options, t_settings, calls>>

NextSheet == GetDataWithRange

SpecSheet == InitSheet /\ [][NextSheet]_vars

\* -------------------------------------------- concurrent request serving (5)
\* The request-serving layer runs several engine calls at once.  Each call
\* runs in its own unit of work: the writes it has made are pending, seen by
\* the call itself and by nobody else, until the unit of work ends.
Write(w, row) == [w |-> w, row |-> row]

\* The store after the pending writes of a unit of work are applied to it.
RECURSIVE Replay(_, _)
Replay(db, pending) ==
    IF pending = <<>> THEN db
    ELSE LET h == Head(pending)
             db1 == CASE h.w = "Field.create" -> [db EXCEPT !.fields = @ \cup {h.row}]
                      [] h.w = "Field.update" ->
                           [db EXCEPT !.fields = {f \in @ : f.id # h.row.id} \cup {h.row}]
                      [] h.w = "Range.create" -> [db EXCEPT !.ranges = @ \cup {h.row}]
                      [] h.w = "FieldRange.create" ->
                           [db EXCEPT !.field_ranges = @ \cup {h.row}]
                      [] h.w = "FieldRange.update" ->
                           FieldRangeService_update(Ctx(db, NoFault), h.row.field_id,
                                                    h.row.range_id).c.db
                      [] h.w = "ChoiceOption.create" ->
                           [db EXCEPT !.choice_options = Append(@, h.row)]
                      [] OTHER -> [db EXCEPT !.settings = @ \cup {h.row}]
         IN Replay(db1, Tail(pending))

InFlight(p) == calls[p].pc # "idle"
Pending(p) == IF InFlight(p) THEN calls[p].pending ELSE <<>>
\* What the call of worker p reads: the committed store and its own writes.
View(p) == Replay(Store, Pending(p))

\* Row ids come from sequences shared by all units of work: a new row never
\* takes the id of a row another call has inserted and not yet committed.
Inserted(pending, w) == {pending[i].row : i \in {j \in DOMAIN pending : pending[j].w = w}}
Reserved(p, w) == UNION {Inserted(Pending(q), w) : q \in Procs \ {p}}
SeqCtx(p) ==
    Ctx([View(p) EXCEPT !.fields = @ \cup Reserved(p, "Field.create"),
                        !.ranges = @ \cup Reserved(p, "Range.create"),
                        !.settings = @ \cup Reserved(p, "Setting.create")], NoFault)

\* The insert of a Field row waits while another unit of work holds an
\* uncommitted row of the same owner and name.
Blocked(p, name, owner_id) ==
    \E f \in Reserved(p, "Field.create") : f.name = name /\ f.owner_id = owner_id

\* Variant: the unit of work of FieldService.create / FieldService.update
\* commits on its own when the method returns.
transaction_decorator_nested_committing(db, pending) ==
    [db |-> Replay(db, pending), pending |-> <<>>]

\* FieldService.create and FieldService.update carry the unit-of-work wrapper
\* themselves; called from an entry point they join its unit of work, so that
\* the entry point runs inside exactly one.
transaction_decorator_nested(db, pending) ==
    [db |-> db, pending |-> pending]

HasBound(args) == args.range_min # None \/ args.range_max # None

ChoiceCreates == {"create_radio_field", "create_checkbox_field"}
ServedCreates == ChoiceCreates \cup {"create_text_or_number_field", "create_autocomplete_field"}
ServedUpdates == {"update_text_or_number_field", "update_checkbox_field"}

\* The locals of an engine call that has just been entered.
NewCall(op, args, pc) ==
    [pc |-> pc, op |-> op, args |-> args, pending |-> <<>>, field |-> None,
     field_range |-> None, range_instance |-> None, data |-> EmptyMap,
     rest |-> <<>>, err |-> "ok"]

\* Rows the calls in flight hold or are about to write.
FieldsInUse ==
    Cardinality(t_fields)
    + Cardinality({q \in Procs : InFlight(q) /\ calls[q].op \in ServedCreates})
RangesInUse ==
    Cardinality(t_ranges)
    + Cardinality({q \in Procs : InFlight(q) /\ HasBound(calls[q].args)})
OptionsWanted(q) ==
    IF InFlight(q) /\ calls[q].op \in ChoiceCreates /\ ~Falsy(calls[q].args.choice_options)
    THEN Len(calls[q].args.choice_options[1]) ELSE 0
OptionsInUse ==
    Len(t_choice_options)
    + Cardinality({x \in Procs \X (1..MaxOptions) : x[2] <= OptionsWanted(x[1])})

\* bounded: the fields a committed call supplied bounds for; raced: the
\* fields for which two range updates in flight both read "no link".
Serving == [op |-> "serving", bounded |-> {}, raced |-> {}]

InitConcurrent ==
    /\ t_fields = {}
    /\ t_ranges = {}
    /\ t_field_ranges = {}
    /\ t_choice_options = <<>>
    /\ t_settings = {}
    /\ last = Serving
    /\ calls = NoCalls

Publish(db) ==
    /\ t_fields' = db.fields
    /\ t_ranges' = db.ranges
    /\ t_field_ranges' = db.field_ranges
    /\ t_choice_options' = db.choice_options
    /\ t_settings' = db.settings

\* A worker moves on inside its call; the committed store is untouched.
Local(p, rec) ==
    /\ calls' = [calls EXCEPT ![p] = rec]
    /\ UNCHANGED <<t_fields, t_ranges, t_field_ranges, t_choice_options, t_settings, last>>

Raised(k, e) == [k EXCEPT !.pc = "rollback", !.err = e]

\* A request arrives at an idle worker: the entry point is entered and its
\* unit of work begins.
EnterCreateTextOrNumber ==
    \E p \in Procs, name \in Names, owner_id \in Owners, range_min \in RangeMins :
        LET args == [name |-> name, owner_id |-> owner_id, field_type |-> "Text",
                     is_strict |-> FALSE, choice_options |-> None,
                     range_min |-> range_min, range_max |-> None, d |-> None]
        IN /\ ~InFlight(p)
           /\ FieldsInUse < MaxFields + 1
           /\ HasBound(args) => RangesInUse < MaxRanges
           /\ Local(p, NewCall("create_text_or_number_field", args, "field"))

EnterCreateChoice ==
    \E p \in Procs, op \in ChoiceCreates, name \in Names, owner_id \in Owners,
       choice_options \in DeltaArgs, range_min \in RangeMins :
        LET args == [name |-> name, owner_id |-> owner_id,
                     field_type |-> IF op = "create_radio_field" THEN "Radio"
                                    ELSE "Checkbox",
                     is_strict |-> FALSE, choice_options |-> choice_options,
                     range_min |-> range_min, range_max |-> None, d |-> None]
        IN /\ ~InFlight(p)
           /\ op = "create_radio_field" => ~HasBound(args)
           /\ FieldsInUse < MaxFields + 1
           /\ HasBound(args) => RangesInUse < MaxRanges
           /\ ~Falsy(choice_options) =>
                  OptionsInUse + Len(choice_options[1]) <= MaxOptions
           /\ Local(p, NewCall(op, args, "check"))

EnterCreateAutocomplete ==
    \E p \in Procs, name \in Names, owner_id \in Owners,
       d \in {x \in Descriptors : x.data_url = "u"} :
        LET args == [name |-> name, owner_id |-> owner_id, field_type |-> "Autocomplete",
                     is_strict |-> FALSE, choice_options |-> None,
                     range_min |-> None, range_max |-> None, d |-> Some(d)]
        IN /\ ~InFlight(p)
           /\ FieldsInUse < MaxFields + 1
           /\ Local(p, NewCall("create_autocomplete_field", args, "field"))

\* update_text_or_number_field / update_checkbox_field with only range
\* arguments: no new name, no option changes, delete_range false.
EnterRangeUpdate ==
    \E p \in Procs, op \in ServedUpdates, field_id \in 1..(MaxFields + 2),
       range_min \in RangeMins :
        LET args == [field_id |-> field_id, name |-> None, is_strict |-> None,
                     range_min |-> range_min, range_max |-> None,
                     delete_range |-> FALSE, added_choice_options |-> None,
                     removed_choice_options |-> None]
        IN /\ ~InFlight(p)
           /\ Routed(field_id, IF op = "update_checkbox_field" THEN {"Checkbox"}
                               ELSE {"Text", "Number"})
           /\ HasBound(args) => RangesInUse < MaxRanges
           /\ Local(p, NewCall(op, args, "field"))

\* if not choice_options: raise ChoiceNotSend()
StepCheck ==
    \E p \in Procs :
        LET k == calls[p]
        IN /\ k.pc = "check"
           /\ Local(p, IF Falsy(k.args.choice_options) THEN Raised(k, "ChoiceNotSend")
                       ELSE [k EXCEPT !.pc = "field", !.rest = k.args.choice_options[1]])

\* field = FieldService.create(...), the test of the answer, and the dump.
StepFieldCreate ==
    \E p \in Procs :
        LET k == calls[p]
            a == k.args
            r == FieldService_create(SeqCtx(p), a.name, a.owner_id, a.field_type,
                                     a.is_strict)
            field == r.val
            w == transaction_decorator_nested(Store,
                     Append(k.pending, Write("Field.create", field[1])))
            data == CASE k.op = "create_text_or_number_field" ->
                           IF a.is_strict THEN Put(BasicField_dump(field), "isStrict", TRUE)
                           ELSE BasicField_dump(field)
                      [] k.op = "create_radio_field" ->
                           Put(FieldRadioSchema_dump(field), "choiceOptions", <<>>)
                      [] k.op = "create_checkbox_field" -> FieldRadioSchema_dump(field)
                      [] OTHER -> BasicField_dump(field)
            pc == CASE k.op = "create_text_or_number_field" ->
                         IF HasBound(a) THEN "range" ELSE "commit"
                    [] k.op = "create_radio_field" -> "options"
                    [] k.op = "create_checkbox_field" ->
                         IF HasBound(a) THEN "range" ELSE "options"
                    [] OTHER -> "setting"
        IN /\ k.pc = "field"
           /\ k.op \in ServedCreates
           /\ ~Blocked(p, a.name, a.owner_id)
           /\ IF field = None
              THEN Local(p, CASE k.op = "create_checkbox_field" ->
                                     [k EXCEPT !.pc = pc, !.data = data]
                              [] k.op = "create_autocomplete_field" ->
                                     Raised(k, "FieldNotExist")
                              [] OTHER -> Raised(k, "FieldAlreadyExist"))
              ELSE /\ Publish(w.db)
                   /\ calls' = [calls EXCEPT ![p] =
                                   [k EXCEPT !.pc = pc, !.field = field, !.data = data,
                                             !.pending = w.pending]]
                   /\ UNCHANGED last

\* field = FieldService.update(field_id, name, is_strict) and the dump.
StepFieldUpdate ==
    \E p \in Procs :
        LET k == calls[p]
            a == k.args
            r == FieldService_update(Ctx(View(p), NoFault), a.field_id, a.name, None,
                                     None, a.is_strict)
            w == transaction_decorator_nested(Store,
                     Append(k.pending, Write("Field.update", r.val[1])))
            data == IF k.op = "update_checkbox_field" THEN FieldRadioSchema_dump(r.val)
                    ELSE BasicField_dump(r.val)
        IN /\ k.pc = "field"
           /\ k.op \in ServedUpdates
           /\ IF r.err # "ok"
              THEN Local(p, Raised(k, r.err))
              ELSE /\ Publish(w.db)
                   /\ calls' = [calls EXCEPT ![p] =
                                   [k EXCEPT !.pc = "read_link", !.field = r.val,
                                             !.data = data, !.pending = w.pending]]
                   /\ UNCHANGED last

\* The range update of worker q has read "no link" for the field and is
\* about to attach a range to it.
ReadNoLink(q, field_id) ==
    /\ InFlight(q)
    /\ calls[q].op \in ServedUpdates
    /\ calls[q].args.field_id = field_id
    /\ HasBound(calls[q].args)
    /\ calls[q].pc \in {"range", "link", "merge", "commit"}
    /\ calls[q].field_range = None

\* field_range = FieldRangeService.get_by_field_id(field_id), and the tests
\* of delete_range and of the bounds.
StepReadLink ==
    \E p \in Procs :
        LET k == calls[p]
            field_range == FieldRangeService_get_by_field_id(View(p), k.args.field_id)
        IN /\ k.pc = "read_link"
           /\ calls' = [calls EXCEPT ![p] =
                           [k EXCEPT !.field_range = field_range,
                                     !.pc = IF HasBound(k.args) THEN "range" ELSE "merge"]]
           /\ last' = IF field_range = None /\ HasBound(k.args)
                         /\ \E q \in Procs \ {p} : ReadNoLink(q, k.args.field_id)
                      THEN [last EXCEPT !.raced = @ \cup {k.args.field_id}]
                      ELSE last
           /\ UNCHANGED <<t_fields, t_ranges, t_field_ranges, t_choice_options, t_settings>>

\* range_instance = RangeService.create(range_min, range_max)
StepRangeCreate ==
    \E p \in Procs :
        LET k == calls[p]
            r == RangeService_create(SeqCtx(p), k.args.range_min, k.args.range_max)
        IN /\ k.pc = "range"
           /\ Local(p, [k EXCEPT !.pc = "link", !.range_instance = r.val,
                                 !.pending = Append(@, Write("Range.create", r.val[1]))])

\* FieldRangeService.create(field.id, range.id) of the create operations;
\* in the updates FieldRangeService.update if field_range was read, else
\* FieldRangeService.create.
StepLink ==
    \E p \in Procs :
        LET k == calls[p]
            row == [field_id |-> k.field[1].id, range_id |-> k.range_instance[1].id]
            view == [min |-> k.args.range_min, max |-> k.args.range_max]
        IN /\ k.pc = "link"
           /\ Local(p,
                IF k.field = None THEN Raised(k, "AttributeError")
                ELSE IF k.op \in ServedCreates
                THEN [k EXCEPT !.pending = Append(@, Write("FieldRange.create", row)),
                               !.data = Put(@, "range", view),
                               !.pc = IF k.op = "create_checkbox_field" THEN "options"
                                      ELSE "commit"]
                ELSE [k EXCEPT !.pending =
                                  Append(@, Write(IF k.field_range # None
                                                  THEN "FieldRange.update"
                                                  ELSE "FieldRange.create", row)),
                               !.pc = "merge"])

\* One round of: for option in choice_options:
\*     data['choiceOptions'].append(option); ChoiceOptionService.create(...)
StepOption ==
    \E p \in Procs :
        LET k == calls[p]
            row == [field_id |-> k.field[1].id, option_text |-> Head(k.rest)]
        IN /\ k.pc = "options"
           /\ Local(p,
                IF k.rest = <<>> THEN [k EXCEPT !.pc = "commit"]
                ELSE IF ~Has(k.data, "choiceOptions") THEN Raised(k, "KeyError")
                ELSE IF k.field = None THEN Raised(k, "AttributeError")
                ELSE [k EXCEPT !.data["choiceOptions"] = Append(@, Head(k.rest)),
                               !.pending = Append(@, Write("ChoiceOption.create", row)),
                               !.rest = Tail(@)])

\* settings = SettingAutocompleteService.create(...) and the test of it.
StepSetting ==
    \E p \in Procs :
        LET k == calls[p]
            d == k.args.d[1]
            r == SettingAutocompleteService_create(SeqCtx(p), d.data_url, d.sheet,
                                                   d.from_row, d.to_row, k.field[1].id)
            s == r.val[1]
        IN /\ k.pc = "setting"
           /\ Local(p,
                IF r.val = None THEN Raised(k, "SettingAutocompleteNotExist")
                ELSE [k EXCEPT !.pending = Append(@, Write("Setting.create", s)),
                               !.data = Put(@, "settingAutocomplete",
                                            [dataUrl |-> s.data_url, sheet |-> s.sheet,
                                             fromRow |-> s.from_row, toRow |-> s.to_row]),
                               !.pc = "commit"])

\* data.update(FieldService.get_additional_options(field.id, field.field_type))
StepMerge ==
    \E p \in Procs :
        LET k == calls[p]
            r == MergeAdditional(Ctx(View(p), NoFault), k.data, k.field[1])
        IN /\ k.pc = "merge"
           /\ Local(p, IF r.err # "ok" THEN Raised(k, r.err)
                       ELSE [k EXCEPT !.data = r.data[1], !.pc = "commit"])

\* The call returns: its unit of work commits every pending write at once.
Commit ==
    \E p \in Procs :
        LET k == calls[p]
        IN /\ k.pc = "commit"
           /\ Publish(Replay(Store, k.pending))
           /\ calls' = [calls EXCEPT ![p] = NotCalling]
           /\ last' = IF HasBound(k.args)
                      THEN [last EXCEPT !.bounded = @ \cup {k.field[1].id}]
                      ELSE last

\* The call raised: its unit of work is rolled back.
Rollback ==
    \E p \in Procs :
        /\ calls[p].pc = "rollback"
        /\ Local(p, NotCalling)

NextConcurrent ==
    \/ EnterCreateTextOrNumber
    \/ EnterCreateChoice
    \/ EnterCreateAutocomplete
    \/ EnterRangeUpdate
    \/ StepCheck
    \/ StepFieldCreate
    \/ StepFieldUpdate
    \/ StepReadLink
    \/ StepRangeCreate
    \/ StepLink
    \/ StepOption
    \/ StepSetting
    \/ StepMerge
    \/ Commit
    \/ Rollback

SpecConcurrent == InitConcurrent /\ [][NextConcurrent]_vars

\* ------------------------------------------------------------------ claims
CreateOps == {"create_text_or_number_field", "create_text_area", "create_radio_field",
              "create_checkbox_field", "create_autocomplete_field"}
UpdateOps == {"update_text_or_number_field", "update_radio_field",
              "update_checkbox_field", "update_autocomplete_field"}
Returned == last.op \in CreateOps \cup UpdateOps
Succeeded == Returned /\ last.err = "ok"
Failed == Returned /\ last.err # "ok"

\* Rows of the current store that belong to one field.
LinksOf(db, field_id) == {l \in db.field_ranges : l.field_id = field_id}
OptionsOf(db, field_id) ==
    {i \in DOMAIN db.choice_options : db.choice_options[i].field_id = field_id}
SettingsOf(db, field_id) == {x \in db.settings : x.field_id = field_id}
Exists(db, field_id) == \E f \in db.fields : f.id = field_id
TheField(db, field_id) == CHOOSE f \in db.fields : f.id = field_id

\* What a committed call's logged writes add to each table.
Growth(log, made, dropped) == Count(log, made) - Count(log, dropped)

\* C1: a mutating engine call that ends in an error leaves every table as it
\* was before the call; a call that succeeds leaves the effect of every write
\* it made, in all five tables at once.
C1_AtomicUnitOfWork ==
    /\ Failed => Store = last.pre
    /\ Succeeded =>
        /\ Cardinality(t_fields) - Cardinality(last.pre.fields)
             = Count(last.log, "Field.create")
        /\ Cardinality(t_ranges) - Cardinality(last.pre.ranges)
             = Count(last.log, "Range.create")
        /\ Cardinality(t_field_ranges) - Cardinality(last.pre.field_ranges)
             = Growth(last.log, "FieldRange.create", "FieldRange.delete")
        /\ Len(t_choice_options) - Len(last.pre.choice_options)
             = Growth(last.log, "ChoiceOption.create", "ChoiceOption.delete")
        /\ Cardinality(t_settings) - Cardinality(last.pre.settings)
             = Count(last.log, "Setting.create")

\* A checkbox update that had renamed the field, created a Range and added an
\* option before a removal failed.
C1_Witness ==
    /\ last.op = "update_checkbox_field"
    /\ last.err = "ChoiceOptionNotDeleted"
    /\ Count(last.log, "Field.update") = 1
    /\ Count(last.log, "Range.create") = 1
    /\ Count(last.log, "ChoiceOption.create") >= 1
    /\ last.args.name # None
    /\ TheField(Store, last.args.field_id).name # last.args.name[1]

\* C2: create_radio and create_checkbox called with empty or absent
\* choice_options raise ChoiceNotSend before any write is attempted, and no
\* row of any table is created.
C2_EmptyOptionsRejected ==
    (/\ last.op \in {"create_radio_field", "create_checkbox_field"}
     /\ Falsy(last.args.choice_options))
    => /\ last.err = "ChoiceNotSend"
       /\ last.log = <<>>
       /\ Store = last.pre

C2_Witness ==
    /\ last.op = "create_radio_field"
    /\ last.args.choice_options = Some(<<>>)
    /\ last.fault = NoFault
    /\ ~FieldConflict(last.pre, last.args.name, last.args.owner_id)
    /\ last.err = "ChoiceNotSend"

C4_AutocompleteHasOneSetting ==
    /\ \A f \in t_fields :
          f.field_type = "Autocomplete" => Cardinality(SettingsOf(Store, f.id)) = 1
    /\ last.op = "update_autocomplete_field" =>
          {x.id : x \in t_settings} = {x.id : x \in last.pre.settings}

\* The setting row could not be created: neither the field nor a setting stays.
C4_Witness ==
    /\ last.op = "create_autocomplete_field"
    /\ last.fault = [op |-> "Setting.create", at |-> 1]
    /\ last.log = <<"Field.create", "Setting.create">>
    /\ last.err = "SettingAutocompleteNotExist"
    /\ t_fields = {}

\* The last call took the range-update path with a bound and succeeded.
RangeUpdated == Succeeded /\ RangeUpdateArgs(last.op, last.args)
\* The Range rows the last call created.
NewRanges == {r \in t_ranges : r \notin last.pre.ranges}

\* C5: no field ever has more than one Field-Range Link row, and after two
\* successive range-update calls on the same field the field has exactly one
\* link, which references the Range the later call created.
C5_OneLinkPerField ==
    /\ \A f \in t_fields : Cardinality(LinksOf(Store, f.id)) <= 1
    /\ (RangeUpdated /\ last.prior = last.args.field_id) =>
          /\ Cardinality(NewRanges) = 1
          /\ LinksOf(Store, last.args.field_id)
               = {[field_id |-> last.args.field_id, range_id |-> r.id] : r \in NewRanges}
          /\ \A l \in LinksOf(last.pre, last.args.field_id) :
                l \notin t_field_ranges

\* The second of two successive range updates of one field.
C5_Witness ==
    /\ RangeUpdated
    /\ last.prior = last.args.field_id
    /\ LinksOf(last.pre, last.args.field_id) # {}
    /\ Count(last.log, "FieldRange.update") = 1

\* The last call asked to delete the range of an existing field that had no
\* link.
DeleteWithoutLink ==
    /\ last.op \in {"update_text_or_number_field", "update_checkbox_field"}
    /\ last.args.delete_range
    /\ Exists(last.pre, last.args.field_id)
    /\ LinksOf(last.pre, last.args.field_id) = {}

\* C6: update_text_or_number and update_checkbox with delete_range true on a
\* field without a link raise FieldRangeNotDeleted and leave the whole store
\* unchanged, the name and is_strict already written to the Field included.
C6_DeleteRangeNeedsLink ==
    DeleteWithoutLink =>
        /\ last.err = "FieldRangeNotDeleted"
        /\ Store = last.pre
        /\ TheField(Store, last.args.field_id)
             = TheField(last.pre, last.args.field_id)

\* The call had written a new name and a new is_strict before it failed.
C6_Witness ==
    /\ DeleteWithoutLink
    /\ last.op = "update_text_or_number_field"
    /\ last.log = <<"Field.update">>
    /\ last.args.name # None
    /\ last.args.is_strict # None
    /\ TheField(Store, last.args.field_id).name # last.args.name[1]
    /\ TheField(Store, last.args.field_id).is_strict # last.args.is_strict[1]

\* The base Field creation of the last call yielded no instance.
BaseCreationFailed ==
    /\ last.op \in CreateOps
    /\ Count(last.log, "Field.create") = 1
    /\ \/ last.fault.op = "Field.create"
       \/ FieldConflict(last.pre, last.args.name, last.args.owner_id)

\* C7: every create operation fails with FieldAlreadyExist when the base
\* Field creation yields no instance, and attempts no auxiliary write.
C7_CreateFailsWithFieldAlreadyExist ==
    BaseCreationFailed =>
        /\ last.err = "FieldAlreadyExist"
        /\ last.log = <<"Field.create">>

\* The persisted range of a field: the bounds of the Range rows its links
\* reference.
PersistedRange(field_id) ==
    {[min |-> r.min, max |-> r.max] :
        r \in {x \in t_ranges : \E l \in t_field_ranges :
                                   l.field_id = field_id /\ l.range_id = x.id}}
\* An options mapping shows exactly the persisted range and is_strict.
ShowsPersisted(d, field_id) ==
    /\ Has(d, "range") <=> PersistedRange(field_id) # {}
    /\ Has(d, "range") => PersistedRange(field_id) = {d["range"]}
    /\ Has(d, "isStrict") <=> TheField(Store, field_id).is_strict
    /\ Has(d, "isStrict") => d["isStrict"] = TRUE

\* C8: the range and isStrict of a successful update_text_or_number result,
\* and of a get_additional_options that follows it, are those persisted for
\* the field, whatever the arguments were; a bound supplied alone shows as the
\* Range row the call created.
C8_ResultIsPersistedState ==
    (/\ last.op = "update_text_or_number_field"
     /\ last.err = "ok"
     /\ TheField(Store, last.args.field_id).field_type \in {"Text", "Number"})
    => /\ ShowsPersisted(last.data[1], last.args.field_id)
       /\ LET again == get_additional_options(Store, last.args.field_id,
                          TheField(Store, last.args.field_id).field_type)
          IN /\ again.err = "ok" /\ again.val # None
             /\ ShowsPersisted(again.val[1], last.args.field_id)
       /\ RangeUpdated =>
            last.data[1]["range"] \in {[min |-> r.min, max |-> r.max] : r \in NewRanges}

\* No bound and no is_strict in the arguments, yet the result carries the
\* range linked before the call and isStrict.
C8_Witness ==
    /\ last.op = "update_text_or_number_field"
    /\ last.err = "ok"
    /\ last.args.range_min = None /\ last.args.range_max = None
    /\ ~last.args.delete_range
    /\ last.args.is_strict = None
    /\ Has(last.data[1], "range")
    /\ Has(last.data[1], "isStrict")

\* The descriptor of the last update_autocomplete call's arguments.
ArgDescriptor ==
    [dataUrl |-> last.args.data_url, sheet |-> last.args.sheet,
     fromRow |-> last.args.from_row, toRow |-> last.args.to_row]

\* C9: after a successful update_autocomplete the field's setting row holds
\* the four supplied descriptor values, and the result and a following
\* get_additional_options return exactly those four.
C9_SettingReplacedWholesale ==
    (last.op = "update_autocomplete_field" /\ last.err = "ok") =>
        /\ \A x \in SettingsOf(Store, last.args.field_id) :
              /\ x.data_url = last.args.data_url
              /\ x.sheet = last.args.sheet
              /\ x.from_row = last.args.from_row
              /\ x.to_row = last.args.to_row
        /\ SettingsOf(Store, last.args.field_id) # {}
        /\ last.data[1]["settingAutocomplete"] = ArgDescriptor
        /\ get_additional_options(Store, last.args.field_id, "Autocomplete")
             = [err |-> "ok", val |-> Some(Put(EmptyMap, "settingAutocomplete",
                                               ArgDescriptor))]

\* All four descriptor values differed from the stored ones.
C9_Witness ==
    /\ last.op = "update_autocomplete_field"
    /\ last.err = "ok"
    /\ \E x \in SettingsOf(last.pre, last.args.field_id) :
          /\ x.data_url # last.args.data_url
          /\ x.sheet # last.args.sheet
          /\ x.from_row # last.args.from_row
          /\ x.to_row # last.args.to_row

\* C10: update_autocomplete on a field without a setting row fails with
\* SettingAutocompleteNotExist and creates no setting row.
C10_UpdateNeedsSetting ==
    (/\ last.op = "update_autocomplete_field"
     /\ Exists(last.pre, last.args.field_id)
     /\ SettingsOf(last.pre, last.args.field_id) = {})
    => /\ last.err = "SettingAutocompleteNotExist"
       /\ t_settings = last.pre.settings
       /\ Count(last.log, "Setting.create") = 0

C10_Witness ==
    /\ last.op = "update_autocomplete_field"
    /\ Exists(last.pre, last.args.field_id)
    /\ SettingsOf(last.pre, last.args.field_id) = {}
    /\ last.err = "SettingAutocompleteNotExist"
    /\ last.log = <<"Field.update">>

\* A create of a choice field that returned.
ChoiceCreated ==
    /\ last.op \in {"create_radio_field", "create_checkbox_field"}
    /\ last.err = "ok"

RangedCreated ==
    /\ last.op \in {"create_text_or_number_field", "create_checkbox_field"}
    /\ last.err = "ok"

BoundSupplied == last.args.range_min # None \/ last.args.range_max # None

\* C12: a successful create_text_or_number or create_checkbox adds one Range
\* row holding the supplied bounds and one link from the new field to it, and
\* returns range = {min, max} as supplied, exactly when a bound was supplied
\* (a bound of 0 included); with no bound there is no new Range, no link and
\* no range key.
C12_RangeIffBoundSupplied ==
    RangedCreated =>
        LET id == last.data[1]["id"]
            made == t_ranges \ last.pre.ranges
        IN IF BoundSupplied
           THEN /\ Cardinality(made) = 1
                /\ \A r \in made :
                      /\ r.min = last.args.range_min
                      /\ r.max = last.args.range_max
                      /\ LinksOf(Store, id) = {[field_id |-> id, range_id |-> r.id]}
                /\ LinksOf(last.pre, id) = {}
                /\ Has(last.data[1], "range")
                /\ last.data[1]["range"] = [min |-> last.args.range_min,
                                            max |-> last.args.range_max]
           ELSE /\ made = {}
                /\ LinksOf(Store, id) = {}
                /\ ~Has(last.data[1], "range")

\* A text field was created with the lower bound 0 alone.
C12_Witness ==
    /\ RangedCreated
    /\ last.op = "create_text_or_number_field"
    /\ last.args.range_min = Some(0)
    /\ last.args.range_max = None
    /\ Cardinality(t_field_ranges) = 1

\* The sequence an optional list argument stands for.
ListOf(arg) == IF arg = None THEN <<>> ELSE arg[1]
Elems(seq) == {seq[i] : i \in DOMAIN seq}

\* An option update on an existing field got past its range branch and its
\* add loop.
ReachedRemoveLoop ==
    /\ last.op \in {"update_radio_field", "update_checkbox_field"}
    /\ Exists(last.pre, last.args.field_id)
    /\ last.err \notin {"FieldRangeNotDeleted", "ChoiceOptionNotCreated"}

\* A text to remove names no option of the field, old or just added.
RemoveLookupMisses ==
    \E t \in Elems(ListOf(last.args.removed_choice_options)) :
        /\ t \notin Elems(ListOf(last.args.added_choice_options))
        /\ \A i \in OptionsOf(last.pre, last.args.field_id) :
              last.pre.choice_options[i].option_text # t

\* C13: in update_radio and update_checkbox, a removed text whose lookup
\* finds no ChoiceOption, or whose deletion reports failure, makes the call
\* fail with ChoiceOptionNotDeleted.
C13_RemoveFailsWithChoiceOptionNotDeleted ==
    (/\ ReachedRemoveLoop
     /\ RemoveLookupMisses \/ last.fault.op = "ChoiceOption.delete")
    => last.err = "ChoiceOptionNotDeleted"

OptionUpdate == last.op \in {"update_radio_field", "update_checkbox_field"}

\* C14: in one update_radio or update_checkbox call no ChoiceOption add is
\* attempted after a remove, and an add that reports failure ends the call
\* with ChoiceOptionNotCreated at once: it is the last add, and no remove is
\* attempted.
C14_AddsBeforeRemoves ==
    OptionUpdate =>
        /\ \A i, j \in DOMAIN last.log :
              (last.log[i] = "ChoiceOption.delete" /\ last.log[j] = "ChoiceOption.create")
              => j < i
        /\ last.fault.op = "ChoiceOption.create" =>
              /\ last.err = "ChoiceOptionNotCreated"
              /\ Count(last.log, "ChoiceOption.create") = last.fault.at
              /\ Count(last.log, "ChoiceOption.delete") = 0

\* A call that both added and removed an option and returned.
C14_Witness ==
    /\ OptionUpdate
    /\ last.err = "ok"
    /\ Count(last.log, "ChoiceOption.create") >= 1
    /\ Count(last.log, "ChoiceOption.delete") >= 1

\* The first of two adds reported failure while a removal was requested.
C14_FirstAddFailed ==
    /\ OptionUpdate
    /\ last.fault = [op |-> "ChoiceOption.create", at |-> 1]
    /\ Len(ListOf(last.args.added_choice_options)) = 2
    /\ last.args.removed_choice_options # None
    /\ last.err = "ChoiceOptionNotCreated"

RangeWrites == {"Range.create", "FieldRange.create", "FieldRange.update",
                "FieldRange.delete"}
OptionWrites == {"ChoiceOption.create", "ChoiceOption.delete"}

\* C15: update_checkbox runs its range branch to the end before its option
\* branch: a call that fails with FieldRangeNotDeleted attempted no
\* ChoiceOption write, and in every call each Range and link write precedes
\* each ChoiceOption write.
C15_RangeBranchBeforeOptions ==
    last.op = "update_checkbox_field" =>
        /\ last.err = "FieldRangeNotDeleted" =>
              \A i \in DOMAIN last.log : last.log[i] \notin OptionWrites
        /\ \A i, j \in DOMAIN last.log :
              (last.log[i] \in OptionWrites /\ last.log[j] \in RangeWrites) => j < i

\* A checkbox update that was asked to add an option and to delete a range
\* the field does not have.
C15_Witness ==
    /\ last.op = "update_checkbox_field"
    /\ last.err = "FieldRangeNotDeleted"
    /\ ~Falsy(last.args.added_choice_options)
    /\ Exists(last.pre, last.args.field_id)

\* A checkbox update that wrote a range and an option and returned.
C15_BothBranchesWrote ==
    /\ last.op = "update_checkbox_field"
    /\ last.err = "ok"
    /\ \E i \in DOMAIN last.log : last.log[i] \in OptionWrites
    /\ \E j \in DOMAIN last.log : last.log[j] \in RangeWrites

OptionsRead ==
    /\ last.op = "get_additional_options"
    /\ last.args.field_type \in {"Radio", "Checkbox"}

C16_ReadOptionsAndRange ==
    /\ OptionsRead
    /\ Cardinality(OptionsOf(Store, last.args.field_id)) = 2
    /\ LinksOf(Store, last.args.field_id) # {}
    /\ last.data # None

\* An update of a field that can carry a range, asked neither to delete the
\* range nor to set a bound.
NoRangeRequest ==
    /\ last.op \in {"update_text_or_number_field", "update_checkbox_field"}
    /\ ~last.args.delete_range
    /\ last.args.range_min = None
    /\ last.args.range_max = None

\* C17: update_text_or_number and update_checkbox with delete_range false
\* and no bound attempt no Range or link write and leave the Range table and
\* the link table as they were.
C17_NoBoundsLeavesRange ==
    NoRangeRequest =>
        /\ t_ranges = last.pre.ranges
        /\ t_field_ranges = last.pre.field_ranges
        /\ \A i \in DOMAIN last.log : last.log[i] \notin RangeWrites

\* Such an update renamed a field that has a range, and returned.
C17_Witness ==
    /\ NoRangeRequest
    /\ last.err = "ok"
    /\ last.args.name # None
    /\ LinksOf(last.pre, last.args.field_id) # {}
    /\ TheField(Store, last.args.field_id) # TheField(last.pre, last.args.field_id)

RangeDeleted ==
    /\ last.op \in {"update_text_or_number_field", "update_checkbox_field"}
    /\ last.err = "ok"
    /\ last.args.delete_range

\* C19: no call changes or removes a Range row; a successful range update
\* with a bound creates exactly one Range and leaves the field's one link on
\* it; a successful delete of a range removes the field's link row and
\* nothing else of the two tables; and every link a call creates or
\* re-points references a Range created by that same call, so that a Range
\* that lost its link is never linked again.
C19_RangesAreNeverReused ==
    Returned =>
        /\ last.pre.ranges \subseteq t_ranges
        /\ RangeUpdated =>
              /\ Cardinality(NewRanges) = 1
              /\ \A r \in NewRanges :
                    LinksOf(Store, last.args.field_id)
                       = {[field_id |-> last.args.field_id, range_id |-> r.id]}
        /\ RangeDeleted =>
              /\ t_ranges = last.pre.ranges
              /\ LinksOf(last.pre, last.args.field_id) # {}
              /\ t_field_ranges
                    = last.pre.field_ranges \ LinksOf(last.pre, last.args.field_id)
        /\ \A l \in t_field_ranges \ last.pre.field_ranges :
              \E r \in NewRanges : r.id = l.range_id

\* A field whose range had been deleted got a new one, while the Range it
\* was linked to before is still stored.
C19_Witness ==
    /\ RangeUpdated
    /\ LinksOf(last.pre, last.args.field_id) = {}
    /\ last.pre.ranges # {}
    /\ Cardinality(t_ranges) = 2
    /\ Cardinality(t_field_ranges) = 1

\* An update operation was called with an id that has no Field row.
UpdateOfMissingField ==
    /\ last.op \in UpdateOps
    /\ ~Exists(last.pre, last.args.field_id)

\* C20: an update operation called with a field id that has no Field row
\* raises FieldNotExist, attempts no store write and leaves every table as
\* it was.
C20_UpdateOfMissingFieldRejected ==
    UpdateOfMissingField =>
        /\ last.err = "FieldNotExist"
        /\ last.log = <<>>
        /\ Store = last.pre

\* A radio update that asks for an added option, on an id without a row
\* while another field exists.
C20_Witness ==
    /\ UpdateOfMissingField
    /\ last.op = "update_radio_field"
    /\ ~Falsy(last.args.added_choice_options)
    /\ t_fields # {}
    /\ last.err = "FieldNotExist"

\* An option update got past its range branch and both option loops, and
\* the rows it added and removed leave its field without any option.
LeftWithoutOptions ==
    /\ ReachedRemoveLoop
    /\ last.err \notin {"ChoiceOptionNotDeleted", "AttributeError"}
    /\ Cardinality(OptionsOf(last.pre, last.args.field_id))
          + Count(last.log, "ChoiceOption.create")
          - Count(last.log, "ChoiceOption.delete") = 0

\* C23: an update_radio or update_checkbox call whose add and remove loops
\* leave the field with zero ChoiceOption rows returns no result: the
\* additional options are None and merging them raises TypeError.
C23_ZeroOptionsUpdateFails ==
    LeftWithoutOptions =>
        /\ last.err = "TypeError"
        /\ last.data = None

\* A checkbox update that removed both options of its field.
C23_Witness ==
    /\ LeftWithoutOptions
    /\ last.op = "update_checkbox_field"
    /\ last.args.removed_choice_options = Some(<<"x", "y">>)
    /\ Count(last.log, "ChoiceOption.delete") = 2

SettingsRead ==
    /\ last.op = "get_additional_options"
    /\ last.args.field_type = "Autocomplete"

\* C24: get_additional_options for the Autocomplete type and a field id
\* without an AutocompleteSetting row ends in SettingAutocompleteNotExist,
\* not in a None result; with a row it returns its four descriptor values;
\* and a None result is given only for a Radio or Checkbox type without
\* options.
C24_SettingErrorPropagates ==
    /\ SettingsRead =>
          IF SettingsOf(Store, last.args.field_id) = {}
          THEN /\ last.err = "SettingAutocompleteNotExist"
               /\ last.data = None
          ELSE /\ last.err = "ok"
               /\ last.data # None
               /\ \A x \in SettingsOf(Store, last.args.field_id) :
                     last.data[1] = [k \in {"settingAutocomplete"} |->
                                        [dataUrl |-> x.data_url, sheet |-> x.sheet,
                                         fromRow |-> x.from_row, toRow |-> x.to_row]]
    /\ (last.op = "get_additional_options" /\ last.err = "ok" /\ last.data = None) =>
          /\ last.args.field_type \in {"Radio", "Checkbox"}
          /\ OptionsOf(Store, last.args.field_id) = {}

\* The settings of a field that is stored, but has no setting row, were read.
C24_Witness ==
    /\ SettingsRead
    /\ Exists(Store, last.args.field_id)
    /\ SettingsOf(Store, last.args.field_id) = {}
    /\ last.err = "SettingAutocompleteNotExist"

\* The settings of an Autocomplete field were read.
C24_ReadSettings ==
    /\ SettingsRead
    /\ last.err = "ok"
    /\ SettingsOf(Store, last.args.field_id) # {}

\* The additional options the reader of the field's type computes.
OptionsView(f) ==
    IF f.field_type \in {"Text", "Number"}
    THEN get_text_or_number_additional_options(Store, f.id)
    ELSE get_choice_additional_options(Store, f.id)

\* C26: every Field-Range Link row references a stored Field and a stored
\* Range, and the additional options of a Text, Number, Radio or Checkbox
\* field carry a range key exactly when the field has a link.
C26_LinksAreResolvable ==
    /\ \A l \in t_field_ranges :
          /\ Exists(Store, l.field_id)
          /\ \E r \in t_ranges : r.id = l.range_id
    /\ \A f \in t_fields :
          f.field_type \in {"Text", "Number", "Radio", "Checkbox"} =>
              /\ OptionsView(f).err = "ok"
              /\ Has(OptionsView(f).val[1], "range") <=> LinksOf(Store, f.id) # {}

\* A field's link was re-pointed: two Ranges are stored, one of them linked.
C26_Witness ==
    /\ last.op = "idle"
    /\ Cardinality(t_ranges) = 2
    /\ Cardinality(t_field_ranges) = 1
    /\ \E f \in t_fields : Has(OptionsView(f).val[1], "range")

SheetAnswered == last.op = "get_data_with_range"
TreatedAsWrongRange ==
    /\ last.out.caught = "WrongRange"
    /\ last.out.requests = <<>>
    /\ last.out.err = "ok"
    /\ last.out.val = None
Forwarded ==
    last.out.requests = <<[spreadsheetId |-> last.spreadsheet_id,
                           range |-> last.from_row \o <<":">> \o last.to_row]>>

\* C25: get_data_with_range treats the request as a WrongRange, asking
\* nothing of the remote source and returning None, exactly when the column
\* letters of from_row and to_row differ, and forwards every other pair as
\* the range from_row:to_row.
C25_WrongRangeIffColumnsDiffer ==
    SheetAnswered =>
        /\ TreatedAsWrongRange <=> ColumnOf(last.from_row) # ColumnOf(last.to_row)
        /\ ColumnOf(last.from_row) = ColumnOf(last.to_row) => Forwarded

\* C25, amended: for non-empty from_row and to_row, get_data_with_range
\* treats the request as a WrongRange exactly when their first characters
\* differ, and forwards every pair with equal first characters as the range
\* from_row:to_row; an empty reference ends the call in IndexError.
C25_WrongRangeIffFirstCharsDiffer ==
    SheetAnswered =>
        IF last.from_row = <<>> \/ last.to_row = <<>>
        THEN last.out.err = "IndexError" /\ last.out.requests = <<>>
        ELSE /\ TreatedAsWrongRange <=> last.from_row[1] # last.to_row[1]
             /\ last.from_row[1] = last.to_row[1] => Forwarded

\* A range from column AA to column AB was forwarded to the remote source.
C25_Witness ==
    /\ SheetAnswered
    /\ last.from_row = <<"A", "A", "1">>
    /\ last.to_row = <<"A", "B", "5">>
    /\ Forwarded
    /\ last.out.val = Some(<<"v", "w", "z">>)

\* A range from column AA to column AB: the columns differ, the first
\* characters do not.
C25_ColumnsDifferFirstCharsEqual ==
    /\ SheetAnswered
    /\ last.from_row = <<"A", "A", "1">>
    /\ last.to_row = <<"A", "B", "5">>
    /\ ~TreatedAsWrongRange

\* The create call of worker p has written its Field row and not yet returned.
CreatingField(p) ==
    InFlight(p) /\ calls[p].op \in ServedCreates /\ calls[p].field # None

\* The call that created the field supplied a bound, or a committed range
\* update of the field did.
SuppliedBounds(f) ==
    \/ f.id \in last.bounded
    \/ \E p \in Procs : CreatingField(p) /\ calls[p].field[1] = f /\ HasBound(calls[p].args)

C22_RelinkedAlone ==
    \E p \in Procs :
        /\ InFlight(p)
        /\ calls[p].op \in ServedUpdates
        /\ calls[p].pc = "commit"
        /\ calls[p].field_range # None
        /\ Inserted(calls[p].pending, "FieldRange.update") # {}
        /\ \A q \in Procs \ {p} : ~InFlight(q)

====
